---- MODULE Spec2Model ----
(***************************************************************************)
(* clint: closure-based interrupt handlers.                                *)
(*                                                                         *)
(* The model covers HandlerArray (src/src/array.rs), Handler               *)
(* (src/src/handler.rs) and the two critical-section Lockers               *)
(* (src/src/cs/cortex.rs, src/src/cs/dummy.rs).  One foreground context    *)
(* registers closures, opens override scopes and calls entries; one        *)
(* interrupt context preempts the foreground whenever interrupts are       *)
(* enabled, calls an entry and runs to completion.                         *)
(***************************************************************************)
EXTENDS Integers, Sequences, FiniteSets, TLC

\* ---------------------------------------------------------------- bounds
NR_ISR == 2         \* capacity of the table (array.rs offers 8 .. 256)
NumCallables == 2   \* closures the program owns
MaxDepth == 2       \* deepest nesting of with_overrides scopes
MaxCalls == 2       \* calls (foreground or interrupt) in one run

\* ---------------------------------------------------------------- values
Index == 0 .. (NR_ISR - 1)
Callables == 1 .. NumCallables
\* Handler::new: an entry that was never replaced runs default_handler / None.
NoOp == 0
\* What a read of an entry can yield while the two-word entry is being written.
Garbage == -1
Entry == {NoOp} \cup Callables

NoWrite == [idx |-> -1, val |-> NoOp, hits |-> 0]
NoExit == [how |-> "none", S |-> <<>>, changed |-> FALSE, nested |-> FALSE,
           depth |-> 0, outer |-> {}]
NoFatal == [op |-> "none", ctx |-> "none"]
\* The values the block handed to with_lock may return (R in the trait).
BlockResults == {41, 42}
NoRet == [arg |-> 0, val |-> 0, runs |-> 0, masked |-> FALSE]

VARIABLES
    target,      \* "arm" (target_arch = arm, target_os = none) or "host"
    table,       \* HandlerArray.h: Index -> Entry
    scopes,      \* active lock_overrides frames, outermost first; bk is the backup,
                 \* body tells whether f is "running" or has "returned"
    pc,          \* foreground position
    writing,     \* the entry write in progress, or NoWrite
    intEnabled,  \* interrupt delivery (PRIMASK clear)
    isr,         \* the interrupt context: "idle", or "blocked" on a lock
    effects,     \* Callables -> how many times the closure body has run
    borrowed,    \* Callables -> depth of the handle holding its &mut, or -1
    calls,       \* in-range calls made so far
    dangling,    \* closures whose frame was unwound while an entry held them
    registered,  \* Index -> a register of this entry has begun at some point
    callsSince,  \* Index -> calls of the entry since it was last written
    ran,         \* Index -> closure runs those calls have caused
    lastExit,    \* the override scope exit that has just happened
    fatal,       \* the out-of-range failure or panic that has just happened
    lockRet,     \* the direct Locker::with_lock call that has just returned
    lastCall     \* the context of the in-range call just made: "fg", "isr", "none"

vars == <<target, table, scopes, pc, writing, intEnabled, isr, effects,
          borrowed, calls, dangling, registered, callsSince, ran, lastExit,
          fatal, lockRet, lastCall>>

\* ---------------------------------------------------------------- helpers
Depth == Len(scopes)

\* cs/mod.rs selects cortex.rs on arm/none and dummy.rs elsewhere.
LockerOf(t) == IF t = "arm" THEN "cortex" ELSE "dummy"

\* A with_lock that leaves interrupt delivery alone on every target.
LockNeverMasks(t) == FALSE
\* cortex.rs with_lock runs f inside interrupt::free; dummy.rs just runs f.
LockMasks(t) == LockerOf(t) = "cortex"

\* A with_lock that calls its block a second time and returns that result.
WithLockTwice(t, v) ==
    [arg |-> v, val |-> v, runs |-> 2, masked |-> LockMasks(t)]
\* with_lock(f): f() on the host, interrupt::free(|_cs| f()) on arm.  The block
\* is an FnOnce returning v: it is called once and its value is the result;
\* masked tells whether interrupts were off while it ran.
WithLock(t, v) ==
    [arg |-> v, val |-> v, runs |-> 1, masked |-> LockMasks(t)]

\* A panic unwinds on the host; the bare-metal arm targets abort.
PanicUnwinds(t) == t = "host"

\* Closure c is a local of the frame at depth Home(c): 0 is the frame that
\* owns the table, d >= 1 is the body of the scope at depth d.
Home(c) == (c - 1) % MaxDepth

\* The closures whose frame is on the stack when d scopes are active.
LiveAt(d) == {c \in Callables : Home(c) <= d}
\* A closure left dangling in the table is not created again.
Live == LiveAt(Depth) \ dangling

\* register takes f: &'a mut F on a HandlerArray<'a>.  The handle of the scope
\* at depth k >= 1 has the lifetime 'b of that lock_overrides call, so it takes
\* closures created outside that call; the table itself (k = 0) takes closures
\* that live as long as it does.  &mut is exclusive for the handle's lifetime.
Accepts(k, c) ==
    /\ c \in Live
    /\ Home(c) <= (IF k = 0 THEN 0 ELSE k - 1)
    /\ borrowed[c] = -1

\* A new Handler that already refers to some closure.
HandlerNewStale == CHOOSE c \in Callables : TRUE
\* Handler::new: h = None (or &default_handler with const-fn).
HandlerNew == NoOp

\* A replace that keeps the closure an entry already has.
ReplaceKeepsFirst(old, f) == IF old = NoOp THEN f ELSE old
\* Handler::replace: *self.h.get() = Some(f), whatever the entry held.
Replace(old, f) == f

\* A register that stores the closure in every entry.
InstalledEverywhere(t, nr, f) == [i \in Index |-> f]
\* (*self.h.get())[nr].replace(f): the array with entry nr replaced.
Installed(t, nr, f) == [t EXCEPT ![nr] = Replace(@, f)]

OutOfRange == NR_ISR
\* An index that wraps around instead of panicking.
SliceIndexWraps(nr) == nr % NR_ISR
\* (*self.h.get())[nr]: the entry indexed, or a panic unless nr < NR_ISR.
SliceIndex(nr) == IF nr < NR_ISR THEN nr ELSE OutOfRange

\* The backup left as HandlerArray::new() made it.
SnapshotEmpty(t) == [i \in Index |-> NoOp]
\* let bk = HandlerArray::new(); copy_nonoverlapping(tmp.h.get(), bk.h.get(), 1)
Snapshot(t) == t

\* A handle that refers to the backup array instead of the table.
HandleTargetCopy(k) == IF k = 0 THEN "self" ELSE "bk"
\* let tmp: &HandlerArray<'b> = transmute(self): the handle is the table.
HandleTarget(k) == "self"

\* A restore from the outermost active backup.
RestoreSourceOutermost(s) == s[1].bk
\* copy_nonoverlapping(bk.h.get(), tmp.h.get(), 1): this call's own backup.
RestoreSource(s) == s[Len(s)].bk

\* A copy back that stops one entry short of the end of the array.
RestoreLastShort == NR_ISR - 2
\* copy_nonoverlapping(.., .., 1) copies one [Handler; NR_ISR]: entries 0 to
\* NR_ISR - 1.
RestoreLast == NR_ISR - 1

\* A restore that leaves and re-enters the critical section between entries.
RestoreLockPerEntry == FALSE
\* cs.with_lock(|| copy_nonoverlapping(bk, tmp, 1)): one critical section
\* around the copy of the whole array.
RestoreLockSpansCopy == TRUE

\* An override scope that calls f inside the critical section.
BodyInsideLock == TRUE
\* f(tmp) is called before cs.with_lock, outside any critical section.
BodyLocked == FALSE

\* A call that enters the critical section before reading the entry.
CallTakesLock == TRUE
\* HandlerArray::call never uses a CriticalSection.
CallLocks == FALSE

\* The foreground is inside a with_lock block.
InCriticalSection == pc \in {"reg_writing", "restoring"}

Incr(eff, c) == [eff EXCEPT ![c] = @ + 1]

\* A call that takes the closure out of the entry it runs.
AfterCallTaken(t, nr) == [t EXCEPT ![nr] = NoOp]
\* Handler::call copies the reference out of the entry (let h = *self.h.get())
\* and runs it: the array is as it was.
AfterCall(t, nr) == t

\* A call that returns without running the closure.
ExecNever(h, eff, live) == {eff}
\* Handler::call: run the closure the entry refers to.  A torn reference may
\* crash or run nothing we track; a dangling one is undefined behaviour and
\* the stale closure body may or may not run.
Exec(h, eff, live) ==
    IF h = NoOp \/ h = Garbage THEN {eff}
    ELSE IF h \in live THEN {Incr(eff, h)}
    ELSE {eff, Incr(eff, h)}

\* let h = *self.h.get(): what a read of entry nr yields.  While the entry is
\* being overwritten with a different value the read races with the write.
ReadEntry(nr) ==
    IF writing.idx = nr /\ writing.val # table[nr]
    THEN {table[nr], writing.val, Garbage}
    ELSE {table[nr]}

\* Bookkeeping of a call of entry nr that took the closure counts from eff to
\* eff2, and of a completed write of entry nr.
Called(f, nr) == [f EXCEPT ![nr] = @ + 1]
Ran(f, nr, eff, eff2) == [f EXCEPT ![nr] = @ + (IF eff2 # eff THEN 1 ELSE 0)]
Written(f, nr) == [f EXCEPT ![nr] = 0]

\* The entries that differ from their value S at the entry of the innermost
\* scope and hold a closure registered through an outer handle: the table
\* itself or the handle of an enclosing scope.
OuterWrites(S) ==
    {i \in Index : /\ table[i] # S[i]
                   /\ table[i] # NoOp
                   /\ borrowed[table[i]] \in 0 .. Depth - 1}

Release(b, from) == [c \in Callables |-> IF b[c] >= from THEN -1 ELSE b[c]]

\* ---------------------------------------------------------------- Init
Init ==
    /\ target \in {"arm", "host"}
    /\ table = [i \in Index |-> HandlerNew]
    /\ scopes = <<>>
    /\ pc = "run"
    /\ writing = NoWrite
    /\ intEnabled = TRUE
    /\ isr = "idle"
    /\ effects = [c \in Callables |-> 0]
    /\ borrowed = [c \in Callables |-> -1]
    /\ calls = 0
    /\ dangling = {}
    /\ registered = [i \in Index |-> FALSE]
    /\ callsSince = [i \in Index |-> 0]
    /\ ran = [i \in Index |-> 0]
    /\ lastExit = NoExit
    /\ fatal = NoFatal
    /\ lockRet = NoRet
    /\ lastCall = "none"

\* ---------------------------------------------------------------- panics
\* A panic in the foreground; masked says whether it happens inside with_lock.
\* On the host it unwinds every lock_overrides frame (none of them has a drop
\* guard, so nothing is copied back) and the program goes on at the top
\* frame; on arm it aborts with the frames in place.
PanicFg(op, masked) ==
    /\ fatal' = [op |-> op, ctx |-> "fg"]
    /\ lockRet' = NoRet
    /\ lastCall' = "none"
    /\ writing' = NoWrite
    /\ IF PanicUnwinds(target)
       THEN /\ pc' = "run"
            /\ scopes' = <<>>
            /\ borrowed' = Release(borrowed, 1)
            /\ dangling' = dangling \cup
                   {c \in Callables :
                       Home(c) >= 1 /\ \E i \in Index : table[i] = c}
            /\ lastExit' = IF Depth > 0
                           THEN [how |-> "unwind", S |-> scopes[1].S,
                                 changed |-> table # scopes[1].S,
                                 nested |-> Depth > 1, depth |-> 1,
                                 outer |-> OuterWrites(scopes[1].S)]
                           ELSE NoExit
            /\ UNCHANGED intEnabled
       ELSE /\ pc' = "halted"
            /\ intEnabled' = (intEnabled /\ ~(masked /\ LockMasks(target)))
            /\ UNCHANGED <<scopes, borrowed, dangling, lastExit>>

FgReady == pc = "run" /\ isr = "idle"

\* ---------------------------------------------------------------- register
\* HandlerArray::register / lock_register through the handle of depth k:
\* with_lock is entered, the entry is indexed and replace starts writing it.
Register(k, nr, c) ==
    /\ FgReady
    /\ k \in 0 .. Depth
    /\ Accepts(k, c)
    /\ IF SliceIndex(nr) # OutOfRange
       THEN /\ pc' = "reg_writing"
            /\ writing' = [idx |-> SliceIndex(nr), val |-> c, hits |-> 0]
            /\ intEnabled' = ~LockMasks(target)
            /\ borrowed' = [borrowed EXCEPT ![c] = k]
            /\ registered' = [registered EXCEPT ![SliceIndex(nr)] = TRUE]
            /\ lastExit' = NoExit
            /\ fatal' = NoFatal
            /\ lockRet' = NoRet
            /\ lastCall' = "none"
            /\ UNCHANGED <<scopes, dangling>>
       ELSE /\ PanicFg("register", TRUE)
            /\ UNCHANGED registered
    /\ UNCHANGED <<target, table, isr, effects, calls, callsSince, ran>>

\* Handler::replace finishes storing the reference and with_lock returns.
RegisterExit ==
    /\ pc = "reg_writing"
    /\ isr = "idle"
    /\ LET k == borrowed[writing.val] IN
       IF HandleTarget(k) = "self"
       THEN /\ table' = Installed(table, writing.idx, writing.val)
            /\ UNCHANGED scopes
       ELSE /\ scopes' = [scopes EXCEPT ![k].bk[writing.idx] = writing.val]
            /\ UNCHANGED table
    /\ callsSince' = Written(callsSince, writing.idx)
    /\ ran' = Written(ran, writing.idx)
    /\ writing' = NoWrite
    /\ intEnabled' = TRUE
    /\ pc' = "run"
    /\ UNCHANGED <<target, isr, effects, borrowed, calls, dangling,
                   registered, lastExit, fatal, lockRet, lastCall>>

\* ---------------------------------------------------------------- with_lock
\* The foreground calls Locker::new().with_lock(|| v) itself.  On arm the
\* block runs with interrupts masked and they are unmasked again before
\* with_lock returns, so no interrupt falls inside the step.
WithLockCall(v) ==
    /\ FgReady
    /\ lockRet' = WithLock(target, v)
    /\ fatal' = NoFatal
    /\ UNCHANGED <<target, table, scopes, pc, writing, intEnabled, isr,
                   effects, borrowed, calls, dangling, registered, callsSince,
                   ran, lastExit, lastCall>>

\* ---------------------------------------------------------------- call
\* HandlerArray::call(nr) made by the foreground.
FgCall(nr) ==
    /\ FgReady
    /\ calls < MaxCalls
    /\ IF SliceIndex(nr) # OutOfRange
       THEN /\ effects' \in Exec(table[SliceIndex(nr)], effects, Live)
            /\ calls' = calls + 1
            /\ callsSince' = Called(callsSince, SliceIndex(nr))
            /\ ran' = Ran(ran, SliceIndex(nr), effects, effects')
            /\ fatal' = NoFatal
            /\ lockRet' = NoRet
            /\ lastCall' = "fg"
            /\ table' = AfterCall(table, SliceIndex(nr))
            /\ UNCHANGED <<scopes, pc, writing, intEnabled, borrowed, dangling,
                           lastExit>>
       ELSE /\ PanicFg("call", FALSE)
            /\ UNCHANGED <<table, effects, calls, callsSince, ran>>
    /\ UNCHANGED <<target, isr, registered>>

\* An interrupt is taken and its handler runs HandlerArray::call(nr) to
\* completion: the entry is indexed and read, and the closure runs.  A call
\* that had to take the lock the preempted foreground holds would never
\* return.
Isr(nr) ==
    /\ intEnabled
    /\ isr = "idle"
    /\ calls < MaxCalls
    /\ IF SliceIndex(nr) = OutOfRange
       THEN /\ fatal' = [op |-> "call", ctx |-> "isr"]
            /\ IF PanicUnwinds(target)
               THEN UNCHANGED <<pc, intEnabled>>
               ELSE pc' = "halted" /\ intEnabled' = FALSE
            /\ UNCHANGED <<table, isr, writing, effects, calls, callsSince,
                           ran, lastCall>>
       ELSE IF CallLocks /\ InCriticalSection
       THEN /\ isr' = "blocked"
            /\ UNCHANGED <<table, pc, writing, intEnabled, effects, calls,
                           callsSince, ran, fatal, lastCall>>
       ELSE /\ \E h \in ReadEntry(SliceIndex(nr)) :
                  effects' \in Exec(h, effects, Live)
            /\ calls' = calls + 1
            /\ callsSince' = Called(callsSince, SliceIndex(nr))
            /\ ran' = Ran(ran, SliceIndex(nr), effects, effects')
            /\ writing' = IF writing.idx = SliceIndex(nr)
                           THEN [writing EXCEPT !.hits = @ + 1]
                           ELSE writing
            /\ lastCall' = "isr"
            /\ table' = AfterCall(table, SliceIndex(nr))
            /\ UNCHANGED <<pc, intEnabled, isr, fatal>>
    /\ UNCHANGED <<target, scopes, borrowed, dangling, registered, lastExit,
                   lockRet>>

\* ---------------------------------------------------------------- overrides
\* with_overrides / lock_overrides up to the call of f: the handlers are
\* backed up and the body starts.  The backup is made outside the critical
\* section; an interrupt taken during it only calls and writes no entry.  S
\* records the table at scope entry.
OverridesEnter ==
    /\ FgReady
    /\ Depth < MaxDepth
    /\ scopes' = Append(scopes, [bk |-> Snapshot(table), S |-> table,
                                 changed |-> FALSE, nested |-> FALSE,
                                 outer |-> {}, body |-> "running"])
    /\ lastExit' = NoExit
    /\ fatal' = NoFatal
    /\ lockRet' = NoRet
    /\ lastCall' = "none"
    /\ intEnabled' = (intEnabled /\ ~(BodyLocked /\ LockMasks(target)))
    /\ UNCHANGED <<target, table, pc, writing, isr, effects, borrowed, calls,
                   dangling, registered, callsSince, ran>>

\* f(tmp) returns.
BodyReturn ==
    /\ FgReady
    /\ Depth > 0
    /\ pc' = "ov_returned"
    /\ scopes' = [scopes EXCEPT
                     ![Depth].changed = (table # scopes[Depth].S),
                     ![Depth].outer = OuterWrites(scopes[Depth].S),
                     ![Depth].body = "returned"]
    /\ lastExit' = NoExit
    /\ fatal' = NoFatal
    /\ lockRet' = NoRet
    /\ lastCall' = "none"
    /\ UNCHANGED <<target, table, writing, intEnabled, isr, effects, borrowed,
                   calls, dangling, registered, callsSince, ran>>

\* f(tmp) panics.
BodyPanic ==
    /\ FgReady
    /\ Depth > 0
    /\ PanicFg("body", FALSE)
    /\ UNCHANGED <<target, table, isr, effects, calls, registered, callsSince,
                   ran>>

\* cs.with_lock is entered and the copy back starts with entry 0.
RestoreEnter ==
    /\ pc = "ov_returned"
    /\ isr = "idle"
    /\ pc' = "restoring"
    /\ intEnabled' = ~LockMasks(target)
    /\ writing' = [idx |-> 0, val |-> RestoreSource(scopes)[0], hits |-> 0]
    /\ UNCHANGED <<target, table, scopes, isr, effects, borrowed, calls,
                   dangling, registered, callsSince, ran, lastExit, fatal,
                   lockRet, lastCall>>

\* One entry has been copied back; the next one is being written.
RestoreCopy ==
    /\ pc = "restoring"
    /\ isr = "idle"
    /\ writing.idx < RestoreLast
    /\ table' = [table EXCEPT ![writing.idx] = writing.val]
    /\ writing' = [idx |-> writing.idx + 1,
                   val |-> RestoreSource(scopes)[writing.idx + 1],
                   hits |-> 0]
    /\ callsSince' = Written(callsSince, writing.idx)
    /\ ran' = Written(ran, writing.idx)
    /\ intEnabled' = (intEnabled \/ ~RestoreLockSpansCopy)
    /\ UNCHANGED <<target, scopes, pc, isr, effects, borrowed,
                   calls, dangling, registered, lastExit, fatal, lockRet,
                   lastCall>>

\* The last entry has been copied back, with_lock returns and lock_overrides
\* returns to its caller.
RestoreExit ==
    /\ pc = "restoring"
    /\ isr = "idle"
    /\ writing.idx = RestoreLast
    /\ table' = [table EXCEPT ![writing.idx] = writing.val]
    /\ writing' = NoWrite
    /\ intEnabled' = TRUE
    /\ pc' = "run"
    /\ callsSince' = Written(callsSince, writing.idx)
    /\ ran' = Written(ran, writing.idx)
    /\ scopes' = [j \in 1 .. Depth - 1 |->
                    IF j = Depth - 1 THEN [scopes[j] EXCEPT !.nested = TRUE]
                    ELSE scopes[j]]
    /\ borrowed' = Release(borrowed, Depth)
    /\ lastExit' = [how |-> "return", S |-> scopes[Depth].S,
                    changed |-> scopes[Depth].changed,
                    nested |-> scopes[Depth].nested, depth |-> Depth,
                    outer |-> scopes[Depth].outer]
    /\ UNCHANGED <<target, isr, effects, calls, dangling, registered, fatal,
                   lockRet, lastCall>>

\* ---------------------------------------------------------------- Next
Next ==
    \/ \E k \in 0 .. MaxDepth, nr \in 0 .. NR_ISR, c \in Callables :
          Register(k, nr, c)
    \/ RegisterExit
    \/ \E v \in BlockResults : WithLockCall(v)
    \/ \E nr \in 0 .. NR_ISR : FgCall(nr)
    \/ \E nr \in 0 .. NR_ISR : Isr(nr)
    \/ OverridesEnter
    \/ BodyReturn
    \/ BodyPanic
    \/ RestoreEnter
    \/ RestoreCopy
    \/ RestoreExit

Spec == Init /\ [][Next]_vars

\* The foreground always gets to finish the step it is in: nothing in the
\* code makes it wait, and an interrupt handler returns to it.
FgStep == RegisterExit \/ RestoreEnter \/ RestoreCopy \/ RestoreExit

FairSpec == Spec /\ WF_vars(FgStep)

TypeOK ==
    /\ target \in {"arm", "host"}
    /\ table \in [Index -> Entry]
    /\ pc \in {"run", "reg_writing", "ov_returned", "restoring", "halted"}
    /\ intEnabled \in BOOLEAN
    /\ calls \in 0 .. MaxCalls
    /\ Depth <= MaxDepth
    /\ lastCall \in {"none", "fg", "isr"}
    /\ lockRet = NoRet \/ lockRet.arg \in BlockResults

\* ---------------------------------------------------------------- steps
\* The step that completes a register, and the steps that are a call.
RegisterBegun == pc = "run" /\ pc' = "reg_writing"
RegisterDone == pc = "reg_writing" /\ pc' = "run"
CallOf(nr) == FgCall(nr) \/ Isr(nr)

\* ================================================================ claims

\* C1: when with_overrides / lock_overrides has returned, every entry of the
\* table equals its value at scope entry, whatever the body registered.
C1_RestoredOnReturn ==
    lastExit.how = "return" => table = lastExit.S

\* A scope whose body changed a table that was not empty has returned.
C1_Witness ==
    /\ lastExit.how = "return"
    /\ lastExit.changed
    /\ table = lastExit.S
    /\ \E i \in Index : lastExit.S[i] # NoOp

\* C2: once control has left with_overrides / lock_overrides, by return or by
\* unwinding, the table equals the snapshot taken at scope entry.
C2_RestoredOnEveryExit ==
    lastExit.how # "none" => table = lastExit.S

\* C3: with the interrupt-disabling critical section no interrupt-context
\* call of an entry can begin while a write to that entry is in progress.
\* (An interrupt handler runs to completion before the foreground resumes, so
\* no write begins while a call is in flight.)
C3_NoCallDuringWrite ==
    target = "arm" =>
        /\ writing.hits = 0
        /\ \A nr \in Index : writing.idx = nr => ~ENABLED Isr(nr)

\* On arm an entry is being overwritten with a different value, calls have
\* been made and more could be made.
C3_Witness ==
    /\ target = "arm"
    /\ writing.idx \in Index
    /\ table[writing.idx] # writing.val
    /\ calls > 0
    /\ calls < MaxCalls

\* C4: every entry holds the no-op or a closure that is still alive, and no
\* entry holds a closure whose registration handle has gone out of scope.
C4_EntriesLive ==
    \A i \in Index :
        table[i] # NoOp => table[i] \in Live /\ borrowed[table[i]] >= 0

\* C5: while entry i holds a live closure f and is not being written, the k
\* calls made since f was installed have run f exactly k times, each call
\* runs f once and nothing else, and installing f runs nothing.
C5_CallsRunOnce ==
    /\ [](\A i \in Index :
            table[i] \in Live /\ writing.idx # i => ran[i] = callsSince[i])
    /\ [][\A nr \in Index :
            CallOf(nr) /\ table[nr] \in Live /\ writing.idx # nr
                => effects' = Incr(effects, table[nr])]_vars
    /\ [][RegisterBegun \/ RegisterDone => effects' = effects]_vars

\* An installed live closure has been called twice and has run twice.
C5_Witness ==
    \E i \in Index :
        /\ table[i] \in Live
        /\ writing = NoWrite
        /\ callsSince[i] = 2
        /\ effects[table[i]] = 2

\* C6: an entry that was never registered holds the no-op, and a call of it
\* runs no closure and changes nothing.
C6_FreshIsNoOp ==
    /\ [](\A i \in Index : ~registered[i] => table[i] = NoOp)
    /\ [][\A nr \in Index :
            CallOf(nr) /\ ~registered[nr]
                => UNCHANGED <<table, scopes, effects, pc, intEnabled,
                               borrowed, registered>>
                   /\ writing'.val = writing.val]_vars

\* Two calls have been made before any registration, and nothing has run.
C6_Witness ==
    /\ calls = 2
    /\ \A i \in Index : ~registered[i]
    /\ \A c \in Callables : effects[c] = 0

\* C7: the scope that restores is always the innermost one; when it has
\* returned the table equals its state at that scope's entry and the
\* enclosing scopes are still active.
C7_NestedLifo ==
    /\ pc = "restoring" => writing.val = scopes[Depth].S[writing.idx]
    /\ lastExit.how = "return" =>
          /\ Depth = lastExit.depth - 1
          /\ table = lastExit.S
          /\ \A j \in 1 .. Depth : scopes[j].S = scopes[j].bk

\* The inner scope has returned: the outer scope's overrides are back in
\* effect, and differ from what the inner body had registered.
C7_Witness ==
    /\ lastExit.how = "return"
    /\ lastExit.depth = 2
    /\ lastExit.changed
    /\ Depth = 1
    /\ table # scopes[1].S

\* C8: register and call with the index NR_ISR end in a fatal failure, run
\* no closure and write no entry.
C8_OutOfRangeIsFatal ==
    [][(\/ \E k \in 0 .. MaxDepth, c \in Callables : Register(k, NR_ISR, c)
        \/ CallOf(NR_ISR))
          => /\ fatal'.op \in {"register", "call"}
             /\ writing' \in {writing, NoWrite}
             /\ UNCHANGED <<table, effects, registered>>]_vars

\* An out-of-range register has failed on a table that holds a closure.
C8_Witness ==
    /\ fatal.op = "register"
    /\ \E i \in Index : table[i] # NoOp

\* C9: a registration made through a scope's handle lands in the table
\* itself, in that entry only, so that a call of the entry runs the new
\* closure; nothing but a registration or the restore changes an entry.
C9_HandleIsTable ==
    /\ [][RegisterDone
            => /\ table' = [table EXCEPT ![writing.idx] = writing.val]
               /\ Exec(table'[writing.idx], effects, Live)
                    = {Incr(effects, writing.val)}]_vars
    /\ [][~RegisterDone /\ pc # "restoring" => table' = table]_vars

\* Inside a body, a closure registered through the scope's handle is in the
\* table and has been called, next to an entry that keeps its earlier closure.
C9_Witness ==
    /\ Depth >= 1
    /\ pc = "run"
    /\ \E i, j \in Index :
          /\ i # j
          /\ table[i] # NoOp
          /\ borrowed[table[i]] = Depth
          /\ effects[table[i]] > 0
          /\ table[j] # NoOp
          /\ table[j] = scopes[Depth].S[j]

\* C10: a call never waits for the critical section, so a register and a
\* restore that have started always finish.
C10_NoDeadlock ==
    /\ [](isr = "idle")
    /\ (pc = "reg_writing") ~> (pc = "run")
    /\ (pc = "ov_returned") ~> (pc \in {"run", "halted"})

\* On the host an interrupt has called an entry while the foreground was
\* inside the critical section of a register.
C10_Witness ==
    /\ target = "host"
    /\ pc = "reg_writing"
    /\ writing.hits > 0
    /\ isr = "idle"

\* C11: the pass-through Locker's with_lock runs its block exactly once and
\* returns the block's result unchanged, and no with_lock of that Locker
\* (direct, in a register or in a restore) ever turns interrupt delivery off.
C11_PassThroughLock ==
    target = "host" =>
        /\ intEnabled
        /\ lockRet # NoRet =>
              /\ lockRet.runs = 1
              /\ lockRet.val = lockRet.arg
              /\ ~lockRet.masked

\* On the host with_lock(|| 42) has returned 42 on a table that holds a
\* closure.
C11_Witness ==
    /\ target = "host"
    /\ lockRet.arg = 42
    /\ lockRet.val = 42
    /\ \E i \in Index : table[i] # NoOp

\* C12: a call of entry i that begins after the body has returned, be it
\* between the body's return and the end of the restore or after the scope
\* has returned, never runs a closure that the body registered in entry i.
C12_OverridesGoneAfterBody ==
    [][\A nr \in Index :
          /\ CallOf(nr)
          /\ \/ pc \in {"ov_returned", "restoring"}
                   /\ table[nr] # scopes[Depth].S[nr]
             \/ lastExit.how = "return" /\ table[nr] # lastExit.S[nr]
          => effects'[table[nr]] = effects[table[nr]]]_vars

\* C12 (amended): a call of entry i that begins after with_overrides /
\* lock_overrides has returned runs what entry i held at scope entry, never
\* what the body registered there.
C12_OverridesGoneAfterReturn ==
    [][\A nr \in Index :
          CallOf(nr) /\ lastExit.how = "return"
              => effects' \in Exec(lastExit.S[nr], effects, Live)]_vars

\* A scope whose body changed the table has returned, and a call made since
\* then has run the closure an entry held at scope entry.
C12_Witness ==
    /\ lastExit.how = "return"
    /\ lastExit.changed
    /\ \E i \in Index :
          /\ lastExit.S[i] # NoOp
          /\ callsSince[i] > 0
          /\ ran[i] > 0

\* C13: with the interrupt-disabling critical section the restore is atomic
\* for interrupt-context calls: from the moment the copy back starts until it
\* has written the last entry no interrupt call can be taken, so none sees a
\* partly restored table or a partly written entry.
C13_RestoreAtomic ==
    target = "arm" /\ pc = "restoring" =>
        /\ ~intEnabled
        /\ writing.hits = 0
        /\ \A nr \in 0 .. NR_ISR : ~ENABLED Isr(nr)

\* On arm a restore is half done: entry 0, which has been registered, is the
\* no-op again, a later entry still holds the body's closure, and the call
\* budget would allow an interrupt call.
C13_Witness ==
    /\ target = "arm"
    /\ pc = "restoring"
    /\ writing.idx >= 1
    /\ registered[0]
    /\ table[0] = NoOp
    /\ table[writing.idx] # NoOp
    /\ table[writing.idx] # writing.val
    /\ calls < MaxCalls

\* C14: the last install wins.  A register of entry i replaces whatever the
\* entry held by the new closure; a call of entry i that does not race with a
\* write of it runs no closure other than the one the entry holds, so never
\* an earlier one; and the entry keeps its closure until it is written again.
C14_LastInstallWins ==
    /\ [][RegisterDone => table'[writing.idx] = writing.val]_vars
    /\ [][\A nr \in Index :
            CallOf(nr) /\ writing.idx # nr
                => \A c \in Callables \ {table[nr]} :
                       effects'[c] = effects[c]]_vars
    /\ [][\A i \in Index : table'[i] # table[i] => writing.idx = i]_vars

\* Entry i held closure f when the scope was entered, g was then registered
\* over it, and calls of entry i have run g and never f.
C14_Witness ==
    /\ Depth >= 1
    /\ pc = "run"
    /\ \E i \in Index :
          /\ scopes[Depth].S[i] # NoOp
          /\ table[i] # NoOp
          /\ table[i] # scopes[Depth].S[i]
          /\ callsSince[i] > 0
          /\ effects[table[i]] > 0
          /\ effects[scopes[Depth].S[i]] = 0

\* C15: a register of entry i with i in range leaves every other entry j as
\* it was, from the moment it begins to the moment it has returned, and a call
\* of entry j behaves after the register as it did before.
C15_RegisterFrame ==
    [][RegisterBegun \/ RegisterDone
         => LET i == IF RegisterBegun THEN writing'.idx ELSE writing.idx IN
            \A j \in Index \ {i} :
                /\ table'[j] = table[j]
                /\ Exec(table'[j], effects', Live')
                     = Exec(table[j], effects, Live)]_vars

\* Entry i has been written and not called since; another entry j holds a
\* closure that has been called twice and has run twice.
C15_Witness ==
    /\ pc = "run"
    /\ \E i, j \in Index :
          /\ i # j
          /\ table[i] # NoOp
          /\ borrowed[table[i]] >= 0
          /\ callsSince[i] = 0
          /\ table[j] \in Live
          /\ callsSince[j] = 2
          /\ effects[table[j]] = 2

\* C16: the restore writes every entry of the table from entry 0 up, so when
\* the scope has returned a registration the body made through the table
\* itself or through an enclosing scope's handle is discarded like one made
\* through the scope's own handle.
C16_RestoreCoversAll ==
    /\ pc = "restoring" =>
          \A j \in Index : j < writing.idx => table[j] = scopes[Depth].S[j]
    /\ lastExit.how = "return" =>
          \A i \in lastExit.outer : table[i] = lastExit.S[i]

\* A scope has returned whose body had left, in the last entry, a closure
\* registered through an outer handle; that closure is still borrowed by the
\* outer handle and is in no entry any more.
C16_Witness ==
    /\ lastExit.how = "return"
    /\ (NR_ISR - 1) \in lastExit.outer
    /\ \E c \in Callables :
          /\ borrowed[c] \in 0 .. lastExit.depth - 1
          /\ \A i \in Index : table[i] # c

\* C17: the critical section is not held while a body runs.  Interrupts are
\* deliverable whenever the foreground is in a body and not inside a register
\* or the restore, so an interrupt call can be taken there at once; masking
\* only happens inside a register or a restore and always ends, so an
\* interrupt raised meanwhile is served too; and the interrupt call taken in
\* a body runs the closure the entry holds then, the override.
C17_BodyOutsideLock ==
    /\ [](Depth >= 1 /\ pc = "run" => intEnabled)
    /\ [](~intEnabled => pc \in {"reg_writing", "restoring", "halted"})
    /\ [](Depth >= 1 /\ pc = "run" /\ calls < MaxCalls
            => \A nr \in Index : ENABLED Isr(nr))
    /\ (~intEnabled /\ pc # "halted") ~> intEnabled
    /\ [][\A nr \in Index :
            Isr(nr) /\ Depth >= 1 /\ pc = "run" /\ table[nr] \in Live
                => effects' = Incr(effects, table[nr])]_vars

\* On arm, inside a body, the one call made so far was an interrupt call of
\* an entry the body has overridden, and it ran the overriding closure.
C17_Witness ==
    /\ target = "arm"
    /\ Depth >= 1
    /\ pc = "run"
    /\ intEnabled
    /\ calls = 1
    /\ lastCall = "isr"
    /\ \E i \in Index :
          /\ table[i] # NoOp
          /\ table[i] # scopes[Depth].S[i]
          /\ callsSince[i] = 1
          /\ effects[table[i]] = 1

\* C18: a call, from the foreground or from an interrupt, in range or not,
\* leaves every entry of the table as it was: it never uninstalls or replaces
\* a closure.  (The closures of the model never register.)
C18_CallReadOnly ==
    [][\A nr \in 0 .. NR_ISR : CallOf(nr) => table' = table]_vars

\* An entry holds a live closure that has been called twice since it was
\* installed, the second time from an interrupt, and has run both times.
C18_Witness ==
    /\ pc = "run"
    /\ lastCall = "isr"
    /\ \E i \in Index :
          /\ table[i] \in Live
          /\ callsSince[i] = 2
          /\ ran[i] = 2

\* C19: every override scope runs its body once, after its snapshot was taken
\* and before its restore begins: the body of each enclosing scope is still
\* running, and the innermost body has returned when the foreground is at or
\* in the restore and is running when the foreground is in it.  Registrations never change a snapshot, and a
\* restore reads the snapshot of its own scope only.
C19_SnapshotPrivate ==
    /\ \A j \in 1 .. Depth : scopes[j].bk = scopes[j].S
    /\ \A j \in 1 .. Depth - 1 : scopes[j].body = "running"
    /\ pc \in {"ov_returned", "restoring"} =>
          Depth >= 1 /\ scopes[Depth].body = "returned"
    /\ pc \in {"run", "reg_writing"} /\ Depth >= 1 =>
          scopes[Depth].body = "running"
    /\ pc = "restoring" => writing.val = scopes[Depth].bk[writing.idx]

\* The inner of two scopes is being restored: its body registered a closure
\* and has returned, and its snapshot differs from the enclosing scope's.
C19_Witness ==
    /\ Depth = 2
    /\ pc = "restoring"
    /\ scopes[2].body = "returned"
    /\ scopes[2].changed
    /\ scopes[2].bk # scopes[1].bk
    /\ writing.val # table[writing.idx]
====
